---- MODULE Spec2Model ----
(***************************************************************************)
(* torch/csrc/utils/hash.h: hash_combine, the SFINAE dispatch of           *)
(* torch::hash<T>, its std::tuple and std::vector specializations, and     *)
(* get_hash.                                                               *)
(*                                                                         *)
(* A std::size_t is a 64-bit word, held as four 16-bit limbs, least        *)
(* significant limb first, so that every operation wraps at 2^64 exactly   *)
(* as the unsigned arithmetic of the source does.                          *)
(***************************************************************************)
EXTENDS Integers, Sequences, FiniteSets, TLC

VARIABLES op, seed, value, obj, out

vars == <<op, seed, value, obj, out>>

(***************************************************************************)
(* Bounds of the explored inputs.                                          *)
(***************************************************************************)
MaxInt == 2
MaxArity == 2
MaxLen == 2

(***************************************************************************)
(* std::size_t                                                             *)
(***************************************************************************)
WordBits == 64

LimbBits == WordBits \div 4

Base == 2^LimbBits

Limb == 0..(Base - 1)

Word == [1..4 -> Limb]

Zero == <<0, 0, 0, 0>>

AllOnes == <<Base - 1, Base - 1, Base - 1, Base - 1>>

\* static_cast<std::size_t>(n) of a non-negative int
NatToWord(n) == <<n % Base, (n \div Base) % Base, 0, 0>>

\* a + b on std::size_t: the carry out of the top limb is discarded
Add(a, b) ==
  LET s1 == a[1] + b[1]
      s2 == a[2] + b[2] + (s1 \div Base)
      s3 == a[3] + b[3] + (s2 \div Base)
      s4 == a[4] + b[4] + (s3 \div Base)
  IN  <<s1 % Base, s2 % Base, s3 % Base, s4 % Base>>

\* a << k on std::size_t, 0 < k < LimbBits: the bits shifted out are lost
ShiftLeft(a, k) ==
  [i \in 1..4 |->
     ((a[i] * 2^k) % Base)
       + (IF i > 1 THEN a[i - 1] \div 2^(LimbBits - k) ELSE 0)]

\* a >> k on std::size_t, 0 < k < LimbBits: zeros are shifted in
ShiftRight(a, k) ==
  [i \in 1..4 |->
     (a[i] \div 2^k)
       + (IF i < 4 THEN (a[i + 1] % 2^k) * 2^(LimbBits - k) ELSE 0)]

RECURSIVE BitXor(_, _, _)
\* x ^ y on the low n bits
BitXor(x, y, n) ==
  IF n = 0 THEN 0
  ELSE ((x + y) % 2) + 2 * BitXor(x \div 2, y \div 2, n - 1)

XorNibble == [x \in 0..15, y \in 0..15 |-> BitXor(x, y, 4)]

XorLimb(x, y) ==
    XorNibble[x % 16, y % 16]
  + 16 * XorNibble[(x \div 16) % 16, (y \div 16) % 16]
  + 256 * XorNibble[(x \div 256) % 16, (y \div 256) % 16]
  + 4096 * XorNibble[x \div 4096, y \div 4096]

\* a ^ b on std::size_t
Xor(a, b) == [i \in 1..4 |-> XorLimb(a[i], b[i])]

\* 0x9e3779b9, converted to std::size_t
K == <<\h79b9, \h9e37, 0, 0>>

\* a buggy variant: the seed is shifted left by 5 instead of 6
hash_combine_shift5(s, v) ==
  Xor(s, Add(Add(Add(v, K), ShiftLeft(s, 5)), ShiftRight(s, 2)))

\* a buggy variant: the low bit of value is dropped before mixing
hash_combine_lossy(s, v) ==
  Xor(s, Add(Add(Add(ShiftRight(v, 1), K), ShiftLeft(s, 6)), ShiftRight(s, 2)))

\* seed ^ (value + 0x9e3779b9 + (seed << 6) + (seed >> 2))
hash_combine(s, v) ==
  Xor(s, Add(Add(Add(v, K), ShiftLeft(s, 6)), ShiftRight(s, 2)))

(***************************************************************************)
(* Types.  A type is a leaf (a class, an enum or a builtin, with the       *)
(* capabilities the SFINAE conditions of dispatch_hash test), a            *)
(* std::tuple<args...>, a std::vector<args[1]>, or const args[1]&.         *)
(* A value carries its type, the int it holds (leaves) and its elements    *)
(* (tuples and vectors).                                                   *)
(***************************************************************************)
LeafNames == {"int", "Color", "LegacyColor", "MyStruct", "Keyed", "Opaque"}

\* What the three SFINAE conditions see of each leaf type:
\*   custom: T::hash(o) is well-formed
\*   enum:   std::is_enum<T>::value
\*   std:    std::hash<T>()(o) is well-formed
\* Color is an enum where the library hashes enums (C++14), LegacyColor one
\* where it does not; Keyed has both a static hash and a std::hash
\* specialization; Opaque has nothing.  An enum has no static member
\* function, so no type is both custom and enum.
Caps(name) ==
  CASE name = "int"         -> [custom |-> FALSE, enum |-> FALSE, std |-> TRUE]
    [] name = "Color"       -> [custom |-> FALSE, enum |-> TRUE,  std |-> TRUE]
    [] name = "LegacyColor" -> [custom |-> FALSE, enum |-> TRUE,  std |-> FALSE]
    [] name = "MyStruct"    -> [custom |-> TRUE,  enum |-> FALSE, std |-> FALSE]
    [] name = "Keyed"       -> [custom |-> TRUE,  enum |-> FALSE, std |-> TRUE]
    [] OTHER                -> [custom |-> FALSE, enum |-> FALSE, std |-> FALSE]

LeafT(name) == [kind |-> "leaf", name |-> name, args |-> <<>>]

TupleT(args) == [kind |-> "tuple", name |-> "std::tuple", args |-> args]

VectorT(t) == [kind |-> "vector", name |-> "std::vector", args |-> <<t>>]

CRefT(t) == [kind |-> "cref", name |-> "const&", args |-> <<t>>]

MkLeaf(name, n) == [ty |-> LeafT(name), val |-> n, elems |-> <<>>]

\* std::tuple<...> of the elements' own types
MkTuple(es) ==
  [ty |-> TupleT([i \in 1..Len(es) |-> es[i].ty]), val |-> 0, elems |-> es]

\* std::vector<t>
MkVector(t, es) == [ty |-> VectorT(t), val |-> 0, elems |-> es]

\* Template argument deduction of T from a parameter const T& o: the
\* reference (and const) of the argument's type is not part of T.
Deduce(t) == IF t.kind = "cref" THEN t.args[1] ELSE t

is_enum(t) == t.kind = "leaf" /\ Caps(t.name).enum

has_std_hash(t) == t.kind = "leaf" /\ Caps(t.name).std

has_custom_hash(t) == t.kind = "leaf" /\ Caps(t.name).custom

\* a buggy variant: the std::hash overload is not disabled for enums
type_if_not_enum_always(t) == TRUE

\* std::enable_if<!std::is_enum<T>::value, V>: whether the type exists
type_if_not_enum(t) == ~is_enum(t)

\* a buggy variant: an overload that accepts every type is also declared
viable_overloads_catch_all(t) ==
  IF has_custom_hash(t) THEN {"custom"}
  ELSE IF is_enum(t) THEN {"enum"}
  ELSE {"std"}

\* The overloads of dispatch_hash that survive substitution for T = t.
viable_overloads(t) ==
       (IF has_std_hash(t) /\ type_if_not_enum(t) THEN {"std"} ELSE {})
  \cup (IF is_enum(t) THEN {"enum"} ELSE {})
  \cup (IF has_custom_hash(t) THEN {"custom"} ELSE {})

\* The diagnostics of the call dispatch_hash(o) with T = t: no viable
\* overload, or several of which none is more specialized than another
\* (the three templates have the same parameter list).
dispatch_errors(t) ==
  IF viable_overloads(t) = {} THEN {"no_match"}
  ELSE IF Cardinality(viable_overloads(t)) > 1 THEN {"ambiguous"}
  ELSE {}

RECURSIVE hash_errors(_)
\* The diagnostics of instantiating simple_get_hash for an argument of type t.
simple_get_hash_errors(t) == hash_errors(Deduce(t))

\* The diagnostics of instantiating torch::hash<t>::operator().  A tuple
\* instantiates tuple_hash for every index, a vector the hash of its element
\* type (whether or not any element exists at run time); the empty tuple asks
\* for std::get<sizeof...(Types)-1> of nothing.
hash_errors(t) ==
  CASE t.kind = "tuple" ->
         IF Len(t.args) = 0 THEN {"ill_formed"}
         ELSE UNION {simple_get_hash_errors(t.args[i]) : i \in 1..Len(t.args)}
    [] t.kind = "vector" -> simple_get_hash_errors(t.args[1])
    [] OTHER -> dispatch_errors(Deduce(t))

(***************************************************************************)
(* Hashing                                                                 *)
(***************************************************************************)
RECURSIVE hash(_)
RECURSIVE tuple_hash(_, _)
RECURSIVE hash_vector_loop(_, _)

\* std::hash<int>()(n): the value converted to std::size_t
std_hash_int(n) == NatToWord(n)

\* std::hash<T>()(o) of a leaf: of an int itself, of an enum its underlying
\* value, of Keyed (its std::hash specialization) its member1
std_hash(o) == std_hash_int(o.val)

\* static_cast<R>(o) of an enum value, R its underlying type
underlying(o) == o.val

\* std::tie(args...): a std::tuple<const Types&...> of references
tie(args) ==
  [ty |-> TupleT([i \in 1..Len(args) |-> CRefT(args[i].ty)]),
   val |-> 0,
   elems |-> [i \in 1..Len(args) |-> [args[i] EXCEPT !.ty = CRefT(@)]]]

\* get_hash(args...)
get_hash(args) == hash(tie(args))

\* T::hash(o) of MyStruct and Keyed, written as the header's example:
\*   static std::size_t hash(const T& s) { return get_hash(s.member1, s.member2); }
\* with member1 = val and member2 = val + 1
custom_hash(o) ==
  get_hash(<<MkLeaf("int", o.val), MkLeaf("int", o.val + 1)>>)

\* dispatch_hash(o): the body of the one viable overload
dispatch_hash(o) ==
  IF "custom" \in viable_overloads(o.ty) THEN custom_hash(o)
  ELSE IF "enum" \in viable_overloads(o.ty) THEN std_hash_int(underlying(o))
  ELSE std_hash(o)

\* a buggy variant: hashes with an explicit template argument, the type of
\* the argument as declared, instead of deducing it
simple_get_hash_explicit(o) == hash(o)

\* a buggy variant: calls the scalar dispatch, not torch::hash
simple_get_hash_scalar(o) == dispatch_hash([o EXCEPT !.ty = Deduce(o.ty)])

\* simple_get_hash(o): torch::hash<T>()(o), T deduced from const T& o
simple_get_hash(o) == hash([o EXCEPT !.ty = Deduce(o.ty)])

\* std::get<i-1>(t)
std_get(i, t) == t.elems[i]

\* a buggy variant: the arguments of hash_combine are exchanged
tuple_hash_swapped(idx, t) ==
  IF idx = 1 THEN simple_get_hash(std_get(1, t))
  ELSE hash_combine(tuple_hash(idx - 1, t), simple_get_hash(std_get(idx, t)))

\* tuple_hash<idx-1, Ts...>()(t): idx counts from 1 here, from 0 in the source
tuple_hash(idx, t) ==
  IF idx = 1 THEN simple_get_hash(std_get(1, t))
  ELSE hash_combine(simple_get_hash(std_get(idx, t)), tuple_hash(idx - 1, t))

\* hash<std::tuple<Types...>>::operator()
hash_tuple(t) == tuple_hash(Len(t.elems), t)

\* a buggy variant: the arguments of hash_combine are exchanged
hash_vector_loop_swapped(es, s) ==
  IF es = <<>> THEN s
  ELSE hash_vector_loop(Tail(es), hash_combine(simple_get_hash(Head(es)), s))

\* the for loop of hash<std::vector<T>>::operator(), s the seed so far
hash_vector_loop(es, s) ==
  IF es = <<>> THEN s
  ELSE hash_vector_loop(Tail(es), hash_combine(s, simple_get_hash(Head(es))))

\* hash<std::vector<T>>::operator()
hash_vector(v) == hash_vector_loop(v.elems, Zero)

\* torch::hash<T>()(o): the specialization for o's type, or the primary
\* template, whose operator() calls dispatch_hash(o), deducing T again
hash(o) ==
  CASE o.ty.kind = "tuple" -> hash_tuple(o)
    [] o.ty.kind = "vector" -> hash_vector(o)
    [] OTHER -> dispatch_hash([o EXCEPT !.ty = Deduce(o.ty)])

(***************************************************************************)
(* Results.  A call either fails to compile, with the diagnostics of its   *)
(* instantiation, or returns a digest; nothing fails at run time.          *)
(***************************************************************************)
NoDigest == <<>>

NoOut == [status |-> "none", errors |-> {}, digest |-> NoDigest]

Ok(d) == [status |-> "ok", errors |-> {}, digest |-> d]

CompileError(es) == [status |-> "compile_error", errors |-> es, digest |-> NoDigest]

\* the call torch::hash<T>()(o), compiled and run
CallHash(o) ==
  IF hash_errors(o.ty) = {} THEN Ok(hash(o)) ELSE CompileError(hash_errors(o.ty))

\* the call get_hash(args...), compiled and run
CallGetHash(args) ==
  IF hash_errors(tie(args).ty) = {} THEN Ok(get_hash(args))
  ELSE CompileError(hash_errors(tie(args).ty))

(***************************************************************************)
(* Inputs                                                                  *)
(***************************************************************************)
SampleWords ==
  { Zero, NatToWord(1), NatToWord(2), NatToWord(23), NatToWord(63),
    NatToWord(64), K, <<Base - 1, Base - 1, 0, 0>>, <<0, 0, 1, 0>>,
    <<0, 0, 0, 2^10>>, <<0, 0, 0, 2^15>>, AllOnes }

NoObj == [ty |-> [kind |-> "none", name |-> "", args |-> <<>>],
          val |-> 0, elems |-> <<>>]

RECURSIVE SeqsUpTo(_, _)
\* the sequences over S of length at most n
SeqsUpTo(S, n) ==
  IF n = 0 THEN {<<>>}
  ELSE LET shorter == SeqsUpTo(S, n - 1)
       IN  shorter \cup {Append(q, x) : q \in {r \in shorter : Len(r) = n - 1}, x \in S}

\* 23, 63 and 64: hash_combine(63, 23) = hash_combine(64, 23)
IntVals == (0..MaxInt) \cup {23, 63, 64}

IntLeaves == {MkLeaf("int", n) : n \in IntVals}

Leaves == {MkLeaf(name, n) : name \in LeafNames, n \in IntVals}

NestedElems ==
  { MkVector(LeafT("int"), <<>>),
    MkVector(LeafT("int"), <<MkLeaf("int", 1)>>),
    MkTuple(<<MkLeaf("int", 1), MkLeaf("int", 2)>>),
    MkVector(LeafT("Opaque"), <<>>) }

TupleElems ==
  IntLeaves \cup {MkLeaf(name, 1) : name \in LeafNames \ {"int"}} \cup NestedElems

ArgLists == SeqsUpTo(TupleElems, MaxArity)

Tuples == {MkTuple(es) : es \in ArgLists}

\* element types of the vectors, each with the values its elements take
VectorPools ==
  { [t |-> LeafT("int"), pool |-> IntLeaves] }
  \cup { [t |-> LeafT(name), pool |-> {MkLeaf(name, 1), MkLeaf(name, 2)}] :
           name \in LeafNames \ {"int"} }
  \cup { [t |-> VectorT(LeafT("int")),
          pool |-> { MkVector(LeafT("int"), <<>>),
                     MkVector(LeafT("int"), <<MkLeaf("int", 1)>>),
                     MkVector(LeafT("int"), <<MkLeaf("int", 1), MkLeaf("int", 2)>>) }],
         [t |-> TupleT(<<LeafT("int"), LeafT("int")>>),
          pool |-> { MkTuple(<<MkLeaf("int", 1), MkLeaf("int", 2)>>),
                     MkTuple(<<MkLeaf("int", 2), MkLeaf("int", 1)>>) }],
         [t |-> VectorT(LeafT("Opaque")),
          pool |-> { MkVector(LeafT("Opaque"), <<>>) }] }

Vectors ==
  UNION { {MkVector(p.t, es) : es \in SeqsUpTo(p.pool, MaxLen)} : p \in VectorPools }

(***************************************************************************)
(* The state: a call (op), its arguments (seed and value of hash_combine;  *)
(* obj, the object hashed, or the std::tuple of the arguments of           *)
(* get_hash) and its result (out), NoOut until the call has been made.     *)
(* Nothing is kept between calls, so a behaviour is one call.              *)
(***************************************************************************)
Init ==
  /\ out = NoOut
  /\ \/ /\ op = "hash_combine"
        /\ seed \in SampleWords
        /\ value \in SampleWords
        /\ obj = NoObj
     \/ /\ op = "hash"
        /\ seed = Zero
        /\ value = Zero
        /\ obj \in Leaves
     \/ /\ op = "hash_tuple"
        /\ seed = Zero
        /\ value = Zero
        /\ obj \in Tuples
     \/ /\ op = "hash_vector"
        /\ seed = Zero
        /\ value = Zero
        /\ obj \in Vectors
     \/ /\ op = "get_hash"
        /\ seed = Zero
        /\ value = Zero
        /\ obj \in Tuples

\* hash_combine(seed, value)
HashCombine ==
  /\ op = "hash_combine"
  /\ out = NoOut
  /\ out' = Ok(hash_combine(seed, value))
  /\ UNCHANGED <<op, seed, value, obj>>

\* torch::hash<T>()(obj), T a class, an enum or int: the primary template
Hash ==
  /\ op = "hash"
  /\ out = NoOut
  /\ out' = CallHash(obj)
  /\ UNCHANGED <<op, seed, value, obj>>

\* torch::hash<std::tuple<Types...>>()(obj)
HashTuple ==
  /\ op = "hash_tuple"
  /\ out = NoOut
  /\ out' = CallHash(obj)
  /\ UNCHANGED <<op, seed, value, obj>>

\* torch::hash<std::vector<T>>()(obj)
HashVector ==
  /\ op = "hash_vector"
  /\ out = NoOut
  /\ out' = CallHash(obj)
  /\ UNCHANGED <<op, seed, value, obj>>

\* get_hash(args...), obj being std::make_tuple(args...)
GetHash ==
  /\ op = "get_hash"
  /\ out = NoOut
  /\ out' = CallGetHash(obj.elems)
  /\ UNCHANGED <<op, seed, value, obj>>

Next == HashCombine \/ Hash \/ HashTuple \/ HashVector \/ GetHash

Spec == Init /\ [][Next]_vars

(***************************************************************************)
(* The specification's reading of the composite rules, over digests.       *)
(***************************************************************************)
Done == out # NoOut

\* hash_of(e): the general entry point on e as an object of its own
HashOfElem(e) == CallHash(e).digest

Compiles(e) == CallHash(e).status = "ok"

RECURSIVE SeqFold(_, _)
\* s_k: s_0 = 0, s_{k+1} = combine(s_k, hs[k+1])
SeqFold(hs, k) ==
  IF k = 0 THEN Zero ELSE hash_combine(SeqFold(hs, k - 1), hs[k])

RECURSIVE TupFold(_, _)
\* d_{k-1}: d_0 = hs[1], d_i = combine(hs[i+1], d_{i-1})
TupFold(hs, k) ==
  IF k = 1 THEN hs[1] ELSE hash_combine(hs[k], TupFold(hs, k - 1))

RECURSIVE HashOf(_)
\* hash_of(v), the composite rule applied at every depth
HashOf(v) ==
  CASE v.ty.kind = "vector" ->
         SeqFold([i \in 1..Len(v.elems) |-> HashOf(v.elems[i])], Len(v.elems))
    [] v.ty.kind = "tuple" ->
         TupFold([i \in 1..Len(v.elems) |-> HashOf(v.elems[i])], Len(v.elems))
    [] OTHER -> HashOfElem(v)

\* field i of a tuple or vector replaced by r
Replace(v, i, r) ==
  [v EXCEPT !.elems = [@ EXCEPT ![i] = r],
            !.ty = IF v.ty.kind = "tuple"
                   THEN [@ EXCEPT !.args = [@ EXCEPT ![i] = r.ty]]
                   ELSE @]

\* the values of e's type that may take its place
Replacements(e) ==
  IF e.ty.kind = "leaf" THEN {MkLeaf(e.ty.name, n) : n \in IntVals} ELSE {}

\* the digest of the tuple of fields 1..i of t
PrefixDigest(t, i) == HashOfElem(MkTuple(SubSeq(t.elems, 1, i)))

(***************************************************************************)
(* C1: hashing a leaf type through torch::hash resolves custom first: a    *)
(* type with a static hash gets T::hash(value) (also when std::hash<T>     *)
(* exists), an enum without one the hash of its underlying value, any      *)
(* other type with std::hash that hash.                                    *)
(***************************************************************************)
C1_CustomPrecedence ==
  (op = "hash" /\ Done) =>
    /\ has_custom_hash(obj.ty) => out = Ok(custom_hash(obj))
    /\ (~has_custom_hash(obj.ty) /\ is_enum(obj.ty)) =>
         out = Ok(std_hash_int(underlying(obj)))
    /\ (~has_custom_hash(obj.ty) /\ ~is_enum(obj.ty) /\ has_std_hash(obj.ty)) =>
         out = Ok(std_hash(obj))

(***************************************************************************)
(* C2: the digest of a vector of hashable elements is the left fold s_n,   *)
(* s_0 = 0, s_{k+1} = combine(s_k, hash_of(e_k)); the empty vector         *)
(* hashes to 0.                                                            *)
(***************************************************************************)
C2_SequenceLeftFold ==
  (op = "hash_vector" /\ Done /\ Compiles(MkVector(obj.ty.args[1], <<>>))) =>
    /\ out = Ok(SeqFold([i \in 1..Len(obj.elems) |-> HashOfElem(obj.elems[i])],
                        Len(obj.elems)))
    /\ obj.elems = <<>> => out = Ok(Zero)

C2_Witness ==
  /\ op = "hash_vector"
  /\ obj = MkVector(LeafT("int"), <<MkLeaf("int", 1), MkLeaf("int", 2)>>)
  /\ out = Ok(hash_combine(hash_combine(Zero, NatToWord(1)), NatToWord(2)))

(***************************************************************************)
(* C3: the digest of a tuple of hashable elements is d_n, d_0 =            *)
(* hash_of(e_0), d_i = combine(hash_of(e_i), d_{i-1}); the digest of       *)
(* (1, 2) is combine(scalar_hash(2), scalar_hash(1)).                      *)
(***************************************************************************)
C3_TupleRecursion ==
  (op = "hash_tuple" /\ Done /\ Len(obj.elems) > 0
     /\ \A i \in 1..Len(obj.elems) : Compiles(obj.elems[i])) =>
    /\ out = Ok(TupFold([i \in 1..Len(obj.elems) |-> HashOfElem(obj.elems[i])],
                        Len(obj.elems)))
    /\ obj = MkTuple(<<MkLeaf("int", 1), MkLeaf("int", 2)>>) =>
         out = Ok(hash_combine(std_hash_int(2), std_hash_int(1)))

C3_Witness ==
  /\ op = "hash_tuple"
  /\ obj = MkTuple(<<MkLeaf("int", 1), MkLeaf("int", 2)>>)
  /\ out = Ok(<<\h7a38, \h9e37, 0, 0>>)

(***************************************************************************)
(* C4: get_hash(a_0, ..., a_n) gives what hashing the tuple                *)
(* (a_0, ..., a_n) gives; get_hash(a) gives what hashing a gives.          *)
(***************************************************************************)
C4_VariadicEquivalence ==
  (op = "get_hash" /\ Done /\ Len(obj.elems) > 0) =>
    /\ out = CallHash(obj)
    /\ Len(obj.elems) = 1 => out = CallHash(obj.elems[1])

C4_Witness ==
  /\ op = "get_hash"
  /\ obj = MkTuple(<<MkLeaf("int", 2), MkVector(LeafT("int"), <<MkLeaf("int", 1)>>)>>)
  /\ out = Ok(hash_combine(hash_combine(Zero, NatToWord(1)), NatToWord(2)))

(***************************************************************************)
(* C5: a type with no static hash, no std::hash and not an enum, and any   *)
(* tuple or vector with such a type anywhere in it, fails to compile with  *)
(* no matching overload and yields no digest; a call either fails to       *)
(* compile or returns a digest.                                            *)
(***************************************************************************)
Unhashable(t) ==
  t.kind = "leaf" /\ ~Caps(t.name).custom /\ ~Caps(t.name).enum /\ ~Caps(t.name).std

RECURSIVE ContainsUnhashable(_)
ContainsUnhashable(t) ==
  \/ Unhashable(t)
  \/ \E i \in 1..Len(t.args) : ContainsUnhashable(t.args[i])

C5_UnhashableFailsToCompile ==
  Done =>
    /\ out.status \in {"ok", "compile_error"}
    /\ out.status = "ok" => out.digest \in Word
    /\ out.status = "compile_error" => (out.digest = NoDigest /\ out.errors # {})
    /\ (op # "hash_combine" /\ ContainsUnhashable(obj.ty)) =>
         (out.status = "compile_error" /\ "no_match" \in out.errors)

C5_Witness ==
  /\ op = "hash_vector"
  /\ obj = MkVector(VectorT(LeafT("Opaque")), <<MkVector(LeafT("Opaque"), <<>>)>>)
  /\ out = CompileError({"no_match"})

(***************************************************************************)
(* C6: hash_combine(seed, value) is                                        *)
(*   seed XOR ((value + K + (seed * 2^6 mod 2^64) + floor(seed / 4))       *)
(*             mod 2^64),                                                  *)
(* a 64-bit word, for every seed and value; it never fails.  The formula   *)
(* is computed here as arithmetic on numbers of eight base-256 digits,     *)
(* lowest digit first: schoolbook multiplication, long division, addition  *)
(* with carry, each modulo 2^64.                                           *)
(***************************************************************************)
DigitsOf(w) ==
  <<w[1] % 256, w[1] \div 256, w[2] % 256, w[2] \div 256,
    w[3] % 256, w[3] \div 256, w[4] % 256, w[4] \div 256>>

RECURSIVE AddDigits(_, _, _, _)
\* (a + b) mod 2^64, from digit i on, with the carry into digit i
AddDigits(a, b, i, carry) ==
  IF i > Len(a) THEN <<>>
  ELSE <<(a[i] + b[i] + carry) % 256>>
         \o AddDigits(a, b, i + 1, (a[i] + b[i] + carry) \div 256)

RECURSIVE MulDigits(_, _, _, _)
\* (a * m) mod 2^64, from digit i on, with the carry into digit i
MulDigits(a, m, i, carry) ==
  IF i > Len(a) THEN <<>>
  ELSE <<(a[i] * m + carry) % 256>>
         \o MulDigits(a, m, i + 1, (a[i] * m + carry) \div 256)

RECURSIVE DivDigits(_, _, _, _)
\* floor(a / d), digits i down to 1, with the remainder of the digits above i
DivDigits(a, d, i, rem) ==
  IF i = 0 THEN <<>>
  ELSE DivDigits(a, d, i - 1, (rem * 256 + a[i]) % d)
         \o <<(rem * 256 + a[i]) \div d>>

XorDigits(a, b) == [i \in 1..Len(a) |-> BitXor(a[i], b[i], 8)]

RefCombine(s, v) ==
  XorDigits(s,
    AddDigits(AddDigits(AddDigits(v, DigitsOf(K), 1, 0),
                        MulDigits(s, 2^6, 1, 0), 1, 0),
              DivDigits(s, 2^2, Len(s), 0), 1, 0))

C6_ReferenceFormula ==
  (op = "hash_combine" /\ Done) =>
    /\ out.status = "ok"
    /\ out.digest \in Word
    /\ DigitsOf(out.digest) = RefCombine(DigitsOf(seed), DigitsOf(value))

C6_Witness ==
  /\ op = "hash_combine"
  /\ seed = AllOnes
  /\ value = AllOnes
  /\ out = Ok(<<\h8688, \h61c8, \hffff, \hbfff>>)

(***************************************************************************)
(* C7: an enum hashes as its underlying integer does, and only the enum    *)
(* overload of dispatch_hash is viable for it, whether std::hash accepts   *)
(* the enum (Color) or not (LegacyColor).                                  *)
(***************************************************************************)
C7_EnumStability ==
  (op = "hash" /\ Done /\ is_enum(obj.ty)) =>
    /\ viable_overloads(obj.ty) = {"enum"}
    /\ out = Ok(std_hash_int(underlying(obj)))
    /\ out = CallHash(MkLeaf("int", underlying(obj)))

C7_Witness ==
  /\ op = "hash"
  /\ obj = MkLeaf("Color", 2)
  /\ out = Ok(NatToWord(2))

(***************************************************************************)
(* C8, as stated: replacing one field of a tuple by a value of a different *)
(* scalar hash always changes the digest of the tuple.                     *)
(***************************************************************************)
C8_FieldSensitivity ==
  (op = "hash_tuple" /\ out.status = "ok") =>
    \A i \in 1..Len(obj.elems) : \A r \in Replacements(obj.elems[i]) :
      HashOfElem(r) # HashOfElem(obj.elems[i]) =>
        HashOfElem(Replace(obj, i, r)) # out.digest

(***************************************************************************)
(* C8, amended: replacing field i of a tuple by a value of a different     *)
(* scalar hash changes the digest of the tuple exactly when it changes     *)
(* the digest of the prefix (e_0, ..., e_i): the fields above i never      *)
(* hide a change, but combine(hash_of(e_i), d_{i-1}) itself can collide    *)
(* for i > 0, as for (23, 63) and (23, 64).                                *)
(***************************************************************************)
C8_FieldSensitivityUpToPrefix ==
  (op = "hash_tuple" /\ out.status = "ok") =>
    \A i \in 1..Len(obj.elems) : \A r \in Replacements(obj.elems[i]) :
      HashOfElem(r) # HashOfElem(obj.elems[i]) =>
        (HashOfElem(Replace(obj, i, r)) = out.digest
           <=> PrefixDigest(Replace(obj, i, r), i) = PrefixDigest(obj, i))

C8_Witness ==
  /\ op = "hash_tuple"
  /\ obj = MkTuple(<<MkLeaf("int", 23), MkLeaf("int", 63)>>)
  /\ out.status = "ok"
  /\ HashOfElem(MkLeaf("int", 64)) # HashOfElem(MkLeaf("int", 63))
  /\ HashOfElem(Replace(obj, 2, MkLeaf("int", 64))) = out.digest

(***************************************************************************)
(* C9: an element that is itself a tuple or a vector contributes the       *)
(* digest the composite rule gives it, at every depth; the vector whose    *)
(* only element is an empty vector hashes to combine(0, 0) = 0x9e3779b9,   *)
(* not to 0; get_hash takes containers as arguments.                       *)
(***************************************************************************)
HasCompositeElem(v) ==
  \E i \in 1..Len(v.elems) : v.elems[i].ty.kind \in {"tuple", "vector"}

VecOfEmptyVec == MkVector(VectorT(LeafT("int")), <<MkVector(LeafT("int"), <<>>)>>)

C9_NestedComposites ==
  /\ (op \in {"hash_tuple", "hash_vector", "get_hash"} /\ out.status = "ok"
        /\ HasCompositeElem(obj)) => out.digest = HashOf(obj)
  /\ (op = "hash_vector" /\ Done /\ obj = VecOfEmptyVec) =>
        (out = Ok(K) /\ out.digest # HashOfElem(MkVector(LeafT("int"), <<>>)))
  /\ (op = "get_hash" /\ Done
        /\ obj = MkTuple(<<MkVector(LeafT("int"), <<MkLeaf("int", 1)>>)>>)) =>
        out = Ok(hash_combine(Zero, NatToWord(1)))

C9_Witness ==
  /\ op = "hash_vector"
  /\ obj = VecOfEmptyVec
  /\ out = Ok(<<\h79b9, \h9e37, 0, 0>>)

(***************************************************************************)
(* C10: hash_combine is injective in its value argument for a fixed seed;  *)
(* so two vectors that differ only in the scalar hash of their last        *)
(* element, and two tuples that differ only in the scalar hash of field 0, *)
(* have different digests.                                                 *)
(***************************************************************************)
C10_InjectiveInValue ==
  /\ (op = "hash_combine" /\ Done) =>
       \A b \in SampleWords \ {value} : hash_combine(seed, b) # out.digest
  /\ (op = "hash_vector" /\ out.status = "ok" /\ Len(obj.elems) > 0) =>
       \A r \in Replacements(obj.elems[Len(obj.elems)]) :
         HashOfElem(r) # HashOfElem(obj.elems[Len(obj.elems)]) =>
           HashOfElem(Replace(obj, Len(obj.elems), r)) # out.digest
  /\ (op = "hash_tuple" /\ out.status = "ok") =>
       \A r \in Replacements(obj.elems[1]) :
         HashOfElem(r) # HashOfElem(obj.elems[1]) =>
           HashOfElem(Replace(obj, 1, r)) # out.digest

C10_Witness ==
  /\ op = "hash_vector"
  /\ obj = MkVector(LeafT("int"), <<MkLeaf("int", 23), MkLeaf("int", 63)>>)
  /\ out.status = "ok"
  /\ HashOfElem(Replace(obj, 2, MkLeaf("int", 64))) # out.digest
====
